---- MODULE Spec2Model ----
(***************************************************************************)
(* Model of src/sshfs_mount/sshfs_mount.cpp: the preparation of a remote   *)
(* mount target over an SSH session (make_sftp_server and its helpers) and *)
(* the lifecycle of the SshfsMount handle (constructor, stop, destructor,  *)
(* worker thread).                                                         *)
(*                                                                         *)
(* Strings are sequences of one-character strings.  The remote host is a   *)
(* tree of directories with an owner each; a directory is named by the     *)
(* sequence of its path segments.  The session is an external collaborator:*)
(* it may fail any command, and what id -u and id -g print is its choice.  *)
(*                                                                         *)
(* QDir::relativeFilePath names the directory itself "" in older Qt and    *)
(* "." in newer Qt; the model keeps both (qtSameDir, fixed per behaviour). *)
(*                                                                         *)
(* After a failed attempt or a destroyed handle the caller may mount the   *)
(* same target again: a new attempt, a new handle, the same remote host.   *)
(*                                                                         *)
(* Specifications:                                                         *)
(*   Spec         the program, one caller, every target up to MaxTargetLen *)
(*   FairSpec     Spec under a fair scheduler                              *)
(*   HandoffSpec  the program entered with any source and mappings         *)
(*   RaceSpec     the program with a second thread calling stop()          *)
(*   RunnerSpec   run_string_cmd on its own, for any capture               *)
(***************************************************************************)
EXTENDS Integers, Sequences, FiniteSets, TLC

VARIABLES
    source,          \* the source path handed to the constructor
    target,          \* the target string handed to the constructor
    gid_map,         \* the group-id mapping handed to the constructor
    uid_map,         \* the user-id mapping handed to the constructor
    qtSameDir,       \* what QDir::relativeFilePath returns for the directory itself
    dirs,            \* remote host: the set of existing directories
    owner,           \* remote host: owner (user, group) of each directory
    attempt,         \* number of the current mount attempt (one handle each)
    pc,              \* position of the constructing caller
    cmdLog,          \* commands executed on the session in this attempt, in order
    error,           \* the exception that aborted the attempt, or "none"
    expanded_target, \* make_sftp_server: expanded_target
    leading,         \* make_sftp_server: leading  (get_path_split().first)
    missing,         \* make_sftp_server: missing  (get_path_split().second)
    default_uid,     \* make_sftp_server: default_uid
    default_gid,     \* make_sftp_server: default_gid
    sftp_server,     \* SshfsMount::sftp_server (NoServer until constructed)
    sftp_thread,     \* SshfsMount::sftp_thread: "none", "running", "finished", "joined"
    workerPc,        \* position of the worker thread's lambda
    stopPc,          \* position of the caller inside stop()
    stopCalls,       \* number of stop() calls made on this handle
    inDtor,          \* the running stop() was called by ~SshfsMount
    started,         \* number of workers ever started for this handle
    preDirs,         \* directories that existed when the attempt began
    preOwner,        \* their owners when the attempt began
    provisioned,     \* an earlier attempt fully prepared this same target
    runCapture,      \* run_string_cmd on its own: what run_cmd returned (the raw capture)
    runRet,          \* run_string_cmd on its own: position and value returned
    otherPc          \* position of a second thread inside stop() on the same handle

inputVars == <<source, target, gid_map, uid_map, qtSameDir>>
runnerVars == <<runCapture, runRet>>
raceVars  == <<otherPc>>
hostVars  == <<dirs, owner>>
prepVars  == <<pc, cmdLog, error, expanded_target, leading, missing, default_uid, default_gid>>
lifeVars  == <<sftp_server, sftp_thread, workerPc, stopPc, stopCalls, inDtor, started>>
histVars  == <<attempt, preDirs, preOwner, provisioned>>
vars      == <<inputVars, hostVars, prepVars, lifeVars, histVars, runnerVars, raceVars>>

(***************************************************************************)
(* Bounds of the model.                                                    *)
(***************************************************************************)
MaxTargetLen == 4
MaxAttempts  == 2
MaxStops     == 2
MaxCaptureLen == 4

Chars == {"/", "a", "~"}

(***************************************************************************)
(* Strings.                                                                *)
(***************************************************************************)
StringsUpTo(n) == UNION {[1..k -> Chars] : k \in 0..n}

\* The targets: a path of plain names, possibly led by the home shorthand.  (The
\* commands interpolate the path unescaped; characters the remote shell would expand
\* are left to the caller to keep out.)
Targets == {s \in StringsUpTo(MaxTargetLen) : \A i \in 2..Len(s) : s[i] # "~"}

\* The characters m..n of s, as far as s has them.
Slice(s, m, n) ==
    LET lo == IF m < 1 THEN 1 ELSE m
        hi == IF n > Len(s) THEN Len(s) ELSE n
    IN  IF lo > hi THEN <<>> ELSE SubSeq(s, lo, hi)

IsSpace(c) == c \in {" ", "\n", "\t"}

RECURSIVE trim_end(_)
\* mp::utils::trim_end: drops the trailing whitespace.
trim_end(s) ==
    IF s # <<>> /\ IsSpace(s[Len(s)]) THEN trim_end(Slice(s, 1, Len(s) - 1)) ELSE s

\* The positions of c in s.
Positions(s, c) == {i \in 1..Len(s) : s[i] = c}

Max(S) == CHOOSE x \in S : \A y \in S : y <= x
Min(S) == CHOOSE x \in S : \A y \in S : x <= y

\* std::string::find(c, from) with 0-based positions; Len(s) + 1 stands for npos.
Find(s, c, from) ==
    LET P == {i \in Positions(s, c) : i - 1 >= from}
    IN  IF P = {} THEN Len(s) + 1 ELSE Min(P) - 1

\* std::string::substr(pos, count) with a 0-based pos.
Substr(s, pos, count) ==
    LET last == IF pos + count > Len(s) THEN Len(s) ELSE pos + count
    IN  Slice(s, pos + 1, last)

RECURSIVE Segs(_)
\* The path segments of a path string: split at '/', the empty segments and the
\* "." segments dropped (QDir::cleanPath followed by split(SkipEmptyParts), and what
\* the remote kernel does when it walks the path).
Segs(s) ==
    IF s = <<>> THEN <<>>
    ELSE LET cut  == Find(s, "/", 0)
             head == Slice(s, 1, cut)
             rest == IF cut >= Len(s) THEN <<>> ELSE Slice(s, cut + 2, Len(s))
         IN  IF head = <<>> \/ head = <<".">> THEN Segs(rest) ELSE <<head>> \o Segs(rest)

RECURSIVE JoinSegs(_)
\* Segments joined with '/' between them.
JoinSegs(q) ==
    IF q = <<>> THEN <<>>
    ELSE IF Len(q) = 1 THEN q[1]
    ELSE q[1] \o <<"/">> \o JoinSegs(Tail(q))

IsPrefix(p, q) == Len(p) <= Len(q) /\ Slice(q, 1, Len(p)) = p

(***************************************************************************)
(* The remote host: what the commands composed by the code do there.       *)
(***************************************************************************)
Root == <<>>

\* The connecting user: name, group, home (the directory a fresh shell starts in).
VmUser  == <<"u">>
VmGroup == <<"g">>
Home    == <<"/", "a">>

\* Owner of what a privileged shell creates.
RootOwner == [user |-> <<"r">>, group |-> <<"r">>]

\* The password database: the home field of a user, empty for an unknown user.
PasswdHome(username) == IF username = <<"a">> THEN <<"/", "a", "/", "a">> ELSE <<>>

\* [ -d "$P" ] in a privileged shell.
RemoteIsDir(p) == Segs(p) \in dirs

\* Mutant: ${P%%/*}, the longest suffix matching "/*" is dropped.
StripLastComponent_Longest(p) ==
    IF Positions(p, "/") = {} THEN p ELSE Slice(p, 1, Min(Positions(p, "/")) - 1)

\* Mutant: ${P%/}, only a trailing '/' is dropped.
StripLastComponent_TrailingSlash(p) ==
    IF p # <<>> /\ p[Len(p)] = "/" THEN Slice(p, 1, Len(p) - 1) ELSE p

\* ${P%/*}: P without its shortest suffix matching "/*"; P itself when it has no '/'.
StripLastComponent(p) ==
    IF Positions(p, "/") = {} THEN p ELSE Slice(p, 1, Max(Positions(p, "/")) - 1)

RECURSIVE RemoteFindExisting(_)
\* P="..."; while [ ! -d "$P/" ]; do P=${P%/*}; done; echo $P/
\* The standard output of the loop; Hang when the loop cannot end (P has no '/' left
\* and is no directory).
Hang == <<"HANG">>
RemoteFindExisting(p) ==
    IF RemoteIsDir(p \o <<"/">>) THEN p \o <<"/", "\n">>
    ELSE IF StripLastComponent(p) = p THEN Hang
    ELSE RemoteFindExisting(StripLastComponent(p))

RECURSIVE StripNewlines(_)
\* Command substitution drops the trailing newlines of the command's output.
StripNewlines(s) ==
    IF s # <<>> /\ s[Len(s)] = "\n" THEN StripNewlines(Slice(s, 1, Len(s) - 1)) ELSE s

\* The standard output of  echo `cmd`-  given the standard output of cmd.
EchoWrap(out) == StripNewlines(out) \o <<"-", "\n">>

\* The directories  cd "root" && mkdir -p "relative"  creates (those on the way to
\* the target that are not there yet).
MkdirNew(root, relative) ==
    LET full == Segs(root) \o Segs(relative)
    IN  {Slice(full, 1, k) : k \in 0..Len(full)} \ dirs

\* Exit code of  cd "root" && mkdir -p "relative".
MkdirExit(root, relative) ==
    IF RemoteIsDir(root) /\ relative # <<>> THEN 0 ELSE 1

\* The directories  cd "root" && chown -R user:group first_dir  changes: first_dir
\* under root and everything below it.
ChownSet(root, first_dir) ==
    {d \in dirs : IsPrefix(Segs(root) \o Segs(first_dir), d)}

\* Exit code of  cd "root" && chown -R user:group first_dir : chown needs an operand
\* (an empty first_dir leaves it none) that exists, and a user and a group.
ChownExit(root, user, group, first_dir) ==
    IF /\ RemoteIsDir(root)
       /\ first_dir # <<>>
       /\ Segs(root) \o Segs(first_dir) \in dirs
       /\ user # <<>> /\ group # <<>>
    THEN 0 ELSE 1

\* Exit codes the session can report for a command.
ExitCodes == {0, 1}

\* Standard output of  id -u  and of  id -g : the session is an external collaborator,
\* its output may or may not be a number.
IdOutputs == {<<"7", "\n">>, <<"0", "\n">>, <<"a", "\n">>, <<>>}

(***************************************************************************)
(* The code: the helpers of make_sftp_server.  Each is an operator from    *)
(* its arguments and what the session answers to a record:                 *)
(*   log   the commands it executed, in order                              *)
(*   err   the exception it threw, or "none"                               *)
(* and its result.                                                         *)
(***************************************************************************)
\* A command as the log keeps it.  injected: the host failed it for a reason of its
\* own (no privilege, a lost connection), not because of what the command was.
Cmd(c, root, arg, exit, out) ==
    [cmd |-> c, root |-> root, arg |-> arg, exit |-> exit, out |-> out,
     injected |-> exit # 0]

NoError           == "none"
RuntimeError      == "runtime_error"        \* run_cmd's default handler (stderr)
UnknownUser       == "runtime_error: user does not exist"
SSHFSMissingError == "SSHFSMissingError"
InvalidArgument   == "invalid_argument"     \* std::stoi
OutOfRange        == "out_of_range"         \* std::string::substr
SystemError       == "system_error"         \* std::thread::join
NeverReturns      == "never returns"

\* Mutant: what is left when the last character is gone is trimmed once more.
run_string_cmd_TrimsAgain(raw) ==
    LET ret == trim_end(raw)
    IN  IF Len(ret) # 0 THEN trim_end(Slice(ret, 1, Len(ret) - 1)) ELSE ret

\* run_string_cmd, after run_cmd has returned the raw capture.
run_string_cmd(raw) ==
    LET ret == trim_end(raw)
    IN  IF Len(ret) # 0 THEN Slice(ret, 1, Len(ret) - 1) ELSE ret

\* Mutant: the exit code is not looked at.
run_cmd_IgnoresExit(exit, out) == [err |-> NoError, out |-> out]

\* run_cmd with the default handler, for a command whose exit code and output are given.
run_cmd(exit, out) ==
    IF exit # 0 THEN [err |-> RuntimeError, out |-> <<>>] ELSE [err |-> NoError, out |-> out]

\* Mutant: the probe is run with the default handler.
check_sshfs_exists_DefaultHandler(exit) ==
    [log |-> <<Cmd("which sshfs", <<>>, <<>>, exit, <<>>)>>,
     err |-> run_cmd(exit, <<>>).err]

check_sshfs_exists(exit) ==
    [log |-> <<Cmd("which sshfs", <<>>, <<>>, exit, <<>>)>>,
     err |-> IF exit # 0 THEN SSHFSMissingError ELSE NoError]

\* Mutant: an empty target is taken for the home directory.
expand_home_directory_EmptyIsHome(tgt, exit) ==
    LET raw == EchoWrap(Home \o <<"\n">>)
        r   == run_cmd(exit, raw)
    IN  IF tgt = <<>>
        THEN [log |-> <<Cmd("pwd", <<>>, <<>>, exit, raw)>>, err |-> r.err,
              ret |-> run_string_cmd(r.out)]
        ELSE [log |-> <<>>, err |-> NoError, ret |-> tgt]

\* Mutant: the remainder is taken from behind the slash.
expand_home_directory_DropsSlash(tgt, exit) ==
    IF tgt # <<>> /\ tgt[1] = "~"
    THEN LET pos  == IF Len(tgt) = 1 THEN 1 ELSE Find(tgt, "/", 1)
             username == Substr(tgt, 1, pos - 1)
             raw  == EchoWrap(IF pos = 1 THEN Home \o <<"\n">>
                              ELSE IF PasswdHome(username) = <<>> THEN <<>>
                              ELSE PasswdHome(username) \o <<"\n">>)
             c    == IF pos = 1 THEN Cmd("pwd", <<>>, <<>>, exit, raw)
                     ELSE Cmd("getent passwd", <<>>, username, exit, raw)
             r    == run_cmd(exit, raw)
             home == run_string_cmd(r.out)
         IN  IF r.err # NoError THEN [log |-> <<c>>, err |-> r.err, ret |-> <<>>]
             ELSE IF pos # 1 /\ Len(home) = 0 THEN [log |-> <<c>>, err |-> UnknownUser, ret |-> <<>>]
             ELSE IF pos > Len(tgt) THEN [log |-> <<c>>, err |-> OutOfRange, ret |-> <<>>]
             ELSE [log |-> <<c>>, err |-> NoError,
                   ret |-> home \o Substr(tgt, pos + 1, Len(tgt) - 1)]
    ELSE [log |-> <<>>, err |-> NoError, ret |-> tgt]

expand_home_directory(tgt, exit) ==
    IF tgt # <<>> /\ tgt[1] = "~"
    THEN LET pos  == IF Len(tgt) = 1 THEN 1 ELSE Find(tgt, "/", 1)
             username == Substr(tgt, 1, pos - 1)
             raw  == EchoWrap(IF pos = 1 THEN Home \o <<"\n">>
                              ELSE IF PasswdHome(username) = <<>> THEN <<>>
                              ELSE PasswdHome(username) \o <<"\n">>)
             c    == IF pos = 1 THEN Cmd("pwd", <<>>, <<>>, exit, raw)
                     ELSE Cmd("getent passwd", <<>>, username, exit, raw)
             r    == run_cmd(exit, raw)
             home == run_string_cmd(r.out)
         IN  IF r.err # NoError THEN [log |-> <<c>>, err |-> r.err, ret |-> <<>>]
             ELSE IF pos # 1 /\ Len(home) = 0 THEN [log |-> <<c>>, err |-> UnknownUser, ret |-> <<>>]
             ELSE IF pos > Len(tgt) THEN [log |-> <<c>>, err |-> OutOfRange, ret |-> <<>>]
             ELSE [log |-> <<c>>, err |-> NoError,
                   ret |-> home \o Substr(tgt, pos, Len(tgt) - 1)]
    ELSE [log |-> <<>>, err |-> NoError, ret |-> tgt]

\* QDir(path).path(): an empty path is ".", one trailing '/' is dropped.
QDirPath(path) ==
    IF path = <<>> THEN <<".">>
    ELSE IF Len(path) > 1 /\ path[Len(path)] = "/" THEN Slice(path, 1, Len(path) - 1)
    ELSE path

\* QDir::isRelative
QDirIsRelative(path) == QDirPath(path)[1] # "/"

\* QDir(dir).relativeFilePath(file): both paths cleaned and split, the common leading
\* segments dropped, "../" for each segment of dir left, then the rest of file.  For
\* file naming dir itself Qt returns "" or ".", depending on its version (qtSameDir).
RelativeFilePath(dir, file) ==
    LET dirElts  == Segs(QDirPath(dir))
        fileElts == Segs(file)
        common   == {i \in 0..Len(dirElts) :
                        i <= Len(fileElts) /\ Slice(dirElts, 1, i) = Slice(fileElts, 1, i)}
        i        == Max(common)
        ups      == [j \in 1..(Len(dirElts) - i) |-> <<".", ".">>]
        result   == JoinSegs(ups \o Slice(fileElts, i + 1, Len(fileElts)))
    IN  IF QDirPath(dir)[1] # "/" \/ file = <<>> \/ file[1] # "/" THEN JoinSegs(Segs(file))
        ELSE IF result = <<>> THEN qtSameDir
        ELSE result

get_path_split(tgt, exitPwd, exitLoop) ==
    LET complete_path == QDirPath(tgt)
        relative == QDirIsRelative(tgt)
        rawPwd   == EchoWrap(Home \o <<"\n">>)
        pwd      == run_cmd(exitPwd, rawPwd)
        absolute == IF relative THEN run_string_cmd(pwd.out) \o <<"/">> \o complete_path
                    ELSE complete_path
        log1     == IF relative THEN <<Cmd("pwd", <<>>, <<>>, exitPwd, rawPwd)>> ELSE <<>>
        found    == RemoteFindExisting(absolute)
        rawLoop  == EchoWrap(found)
        find     == Cmd("find existing", <<>>, absolute, exitLoop, rawLoop)
        loop     == run_cmd(exitLoop, rawLoop)
        existing == run_string_cmd(loop.out)
    IN  IF relative /\ pwd.err # NoError
        THEN [log |-> log1, err |-> pwd.err, first |-> <<>>, second |-> <<>>]
        ELSE IF found = Hang
        THEN [log |-> log1 \o <<find>>, err |-> NeverReturns, first |-> <<>>, second |-> <<>>]
        ELSE IF loop.err # NoError
        THEN [log |-> log1 \o <<find>>, err |-> loop.err, first |-> <<>>, second |-> <<>>]
        ELSE [log |-> log1 \o <<find>>, err |-> NoError,
              first |-> existing, second |-> RelativeFilePath(existing, absolute)]

\* exit: the exit code when the host fails the command for a reason of its own (0: it
\* does not); made: how many directories a failing mkdir -p had created by then.
make_target_dir(root, relative_target, exit, made) ==
    IF relative_target # <<>>
    THEN LET code == IF exit # 0 THEN exit ELSE MkdirExit(root, relative_target)
             new  == MkdirNew(root, relative_target)
         IN  [log |-> <<[Cmd("mkdir -p", root, relative_target, code, <<>>)
                          EXCEPT !.injected = (exit # 0)]>>,
              err |-> run_cmd(code, <<>>).err,
              new |-> IF code = 0 THEN new
                      ELSE IF RemoteIsDir(root)
                      THEN {d \in new : Len(d) <= Len(Segs(root)) + made}
                      ELSE {}]
    ELSE [log |-> <<>>, err |-> NoError, new |-> {}]

\* Mutant: the whole relative path is handed to chown, not its first segment.
set_owner_for_WholePath(root, relative_target, exitNu, exitNg, exitChown) ==
    LET rawNu     == EchoWrap(VmUser \o <<"\n">>)
        rawNg     == EchoWrap(VmGroup \o <<"\n">>)
        nu        == run_cmd(exitNu, rawNu)
        ng        == run_cmd(exitNg, rawNg)
        vm_user   == run_string_cmd(nu.out)
        vm_group  == run_string_cmd(ng.out)
        first_dir == relative_target
        code      == IF exitChown # 0 THEN exitChown
                     ELSE ChownExit(root, vm_user, vm_group, first_dir)
        c1        == Cmd("id -nu", <<>>, <<>>, exitNu, rawNu)
        c2        == Cmd("id -ng", <<>>, <<>>, exitNg, rawNg)
        c3        == [Cmd("chown -R", root, first_dir, code, <<>>)
                         EXCEPT !.injected = (exitChown # 0)]
    IN  IF nu.err # NoError THEN [log |-> <<c1>>, err |-> nu.err, set |-> {}, to |-> RootOwner]
        ELSE IF ng.err # NoError
        THEN [log |-> <<c1, c2>>, err |-> ng.err, set |-> {}, to |-> RootOwner]
        ELSE [log |-> <<c1, c2, c3>>, err |-> run_cmd(code, <<>>).err,
              set |-> IF code = 0 THEN ChownSet(root, first_dir) ELSE {},
              to  |-> [user |-> vm_user, group |-> vm_group]]

set_owner_for(root, relative_target, exitNu, exitNg, exitChown) ==
    LET rawNu     == EchoWrap(VmUser \o <<"\n">>)
        rawNg     == EchoWrap(VmGroup \o <<"\n">>)
        nu        == run_cmd(exitNu, rawNu)
        ng        == run_cmd(exitNg, rawNg)
        vm_user   == run_string_cmd(nu.out)
        vm_group  == run_string_cmd(ng.out)
        first_slash == Find(relative_target, "/", 0)
        first_dir == IF first_slash > Len(relative_target) THEN relative_target
                     ELSE Substr(relative_target, 0, first_slash)
        code      == IF exitChown # 0 THEN exitChown
                     ELSE ChownExit(root, vm_user, vm_group, first_dir)
        c1        == Cmd("id -nu", <<>>, <<>>, exitNu, rawNu)
        c2        == Cmd("id -ng", <<>>, <<>>, exitNg, rawNg)
        c3        == [Cmd("chown -R", root, first_dir, code, <<>>)
                         EXCEPT !.injected = (exitChown # 0)]
    IN  IF nu.err # NoError THEN [log |-> <<c1>>, err |-> nu.err, set |-> {}, to |-> RootOwner]
        ELSE IF ng.err # NoError
        THEN [log |-> <<c1, c2>>, err |-> ng.err, set |-> {}, to |-> RootOwner]
        ELSE [log |-> <<c1, c2, c3>>, err |-> run_cmd(code, <<>>).err,
              set |-> IF code = 0 THEN ChownSet(root, first_dir) ELSE {},
              to  |-> [user |-> vm_user, group |-> vm_group]]

\* std::stoi: the leading whitespace is skipped, then the longest run of digits is
\* read; Invalid (std::invalid_argument) when there is no digit.
DigitValue(c) == IF c = "7" THEN 7 ELSE 0
IsDigit(c) == c \in {"0", "7"}
Invalid == -1

RECURSIVE ReadDigits(_, _)
ReadDigits(s, acc) ==
    IF s # <<>> /\ IsDigit(s[1]) THEN ReadDigits(Tail(s), 10 * acc + DigitValue(s[1])) ELSE acc

RECURSIVE stoi(_)
stoi(s) ==
    IF s # <<>> /\ IsSpace(s[1]) THEN stoi(Tail(s))
    ELSE IF s # <<>> /\ IsDigit(s[1]) THEN ReadDigits(s, 0)
    ELSE Invalid

\* auto output = run_cmd(session, "id -u"); auto default_uid = std::stoi(output);
resolve_id(which, exit, out) ==
    LET r == run_cmd(exit, out)
    IN  [log |-> <<Cmd(which, <<>>, <<>>, exit, out)>>,
         err |-> IF r.err # NoError THEN r.err
                 ELSE IF stoi(r.out) < 0 THEN InvalidArgument ELSE NoError,
         id  |-> stoi(r.out)]

(***************************************************************************)
(* The file-transfer server (sftp_server.cpp): constructor, run(), stop(). *)
(***************************************************************************)
SftpServer(src, tgt, gmap, umap, uid, gid) ==
    [constructed |-> TRUE, source |-> src, target |-> tgt, gid_map |-> gmap,
     uid_map |-> umap, default_uid |-> uid, default_gid |-> gid, stop_invoked |-> FALSE]

\* The handle's sftp_server before make_sftp_server has returned: no server.
NoServer ==
    [constructed |-> FALSE, source |-> <<>>, target |-> <<>>, gid_map |-> {},
     uid_map |-> {}, default_uid |-> -1, default_gid |-> -1, stop_invoked |-> FALSE]

SftpServer_stop(server) == [server EXCEPT !.stop_invoked = TRUE]

\* run() returns once stop has been requested.
SftpServer_run_stopped(server) == server.stop_invoked

\* Mutant: the server is given the target as the caller wrote it.
make_unique_SftpServer_RawTarget(src, tgt, expanded, gmap, umap, uid, gid) ==
    SftpServer(src, tgt, gmap, umap, uid, gid)

\* return std::make_unique<mp::SftpServer>(std::move(session), source, expanded_target,
\*                                         gid_map, uid_map, default_uid, default_gid);
make_unique_SftpServer(src, tgt, expanded, gmap, umap, uid, gid) ==
    SftpServer(src, expanded, gmap, umap, uid, gid)

(***************************************************************************)
(* The state machine.                                                      *)
(***************************************************************************)
InitialDirSets ==
    LET base == {Root, Segs(Home)}
    IN  {base, base \cup {<<<<"a">>, <<"a">>>>}, base \cup {<<<<"a", "a">>>>}}

HomeOwner == [user |-> VmUser, group |-> VmGroup]

\* The identity mappings a caller may hand over (pairs of ids), and the source paths.
IdMaps == {{}, {<<1, 7>>}}
Sources == {<<"s">>, <<"s", "s">>}

\* No run_string_cmd on its own, no second thread.
OthersIdle ==
    /\ runCapture = <<>>
    /\ runRet = [at |-> "none", value |-> <<>>]
    /\ otherPc = "none"

\* The constructor is entered with a target of T, a source of S and mappings of M.
MountInit(S, T, M) ==
    /\ source \in S
    /\ target \in T
    /\ gid_map \in M
    /\ uid_map \in M
    /\ qtSameDir \in {<<>>, <<".">>}
    /\ dirs \in InitialDirSets
    /\ owner = [d \in dirs |-> IF d = Segs(Home) THEN HomeOwner ELSE RootOwner]
    /\ attempt = 1
    /\ pc = "check_sshfs_exists"
    /\ cmdLog = <<>>
    /\ error = NoError
    /\ expanded_target = <<>>
    /\ leading = <<>>
    /\ missing = <<>>
    /\ default_uid = Invalid
    /\ default_gid = Invalid
    /\ sftp_server = NoServer
    /\ sftp_thread = "none"
    /\ workerPc = "none"
    /\ stopPc = "idle"
    /\ stopCalls = 0
    /\ inDtor = FALSE
    /\ started = 0
    /\ preDirs = dirs
    /\ preOwner = owner
    /\ provisioned = FALSE

Init == MountInit({<<"s">>}, Targets, {{}}) /\ OthersIdle

\* Mutant: ownership is set before the directories are made.
NextStep_OwnerFirst(p) ==
    CASE p = "check_sshfs_exists"    -> "expand_home_directory"
      [] p = "expand_home_directory" -> "get_path_split"
      [] p = "get_path_split"        -> "set_owner_for"
      [] p = "set_owner_for"         -> "make_target_dir"
      [] p = "make_target_dir"       -> "id -u"
      [] p = "id -u"                 -> "id -g"
      [] p = "id -g"                 -> "make_unique<SftpServer>"
      [] OTHER                       -> "failed"

\* The statement of make_sftp_server that follows the one at position p.
NextStep(p) ==
    CASE p = "check_sshfs_exists"    -> "expand_home_directory"
      [] p = "expand_home_directory" -> "get_path_split"
      [] p = "get_path_split"        -> "make_target_dir"
      [] p = "make_target_dir"       -> "set_owner_for"
      [] p = "set_owner_for"         -> "id -u"
      [] p = "id -u"                 -> "id -g"
      [] p = "id -g"                 -> "make_unique<SftpServer>"
      [] OTHER                       -> "failed"

\* Mutant: the group id is asked for once more when the server has been made.
AfterConstruct_AsksAgain(p) ==
    IF p = "make_unique<SftpServer>" THEN "id -g" ELSE "constructed"

\* The constructor's member initialisers: sftp_server, then sftp_thread, then the
\* (empty) body, and the handle is constructed.
AfterConstruct(p) ==
    IF p = "make_unique<SftpServer>" THEN "sftp_thread" ELSE "constructed"

\* Where the caller is after a step that ended with err.
After(p, err) ==
    IF err = NoError THEN NextStep(p)
    ELSE IF err = NeverReturns THEN "blocked"
    ELSE "failed"

\* A step of make_sftp_server that returned r.
Step(r) ==
    /\ cmdLog' = cmdLog \o [i \in 1..Len(r.log) |-> [by |-> pc] @@ r.log[i]]
    /\ error' = r.err
    /\ pc' = After(pc, r.err)

CheckSshfsExists ==
    /\ pc = "check_sshfs_exists"
    /\ \E exit \in ExitCodes : Step(check_sshfs_exists(exit))
    /\ UNCHANGED <<expanded_target, leading, missing, default_uid, default_gid>>
    /\ UNCHANGED <<inputVars, runnerVars, raceVars, hostVars, lifeVars, histVars>>

ExpandHomeDirectory ==
    /\ pc = "expand_home_directory"
    /\ \E exit \in ExitCodes :
          LET r == expand_home_directory(target, exit)
          IN  Step(r) /\ expanded_target' = r.ret
    /\ UNCHANGED <<leading, missing, default_uid, default_gid>>
    /\ UNCHANGED <<inputVars, runnerVars, raceVars, hostVars, lifeVars, histVars>>

GetPathSplit ==
    /\ pc = "get_path_split"
    /\ \E exitPwd \in ExitCodes, exitLoop \in ExitCodes :
          LET r == get_path_split(expanded_target, exitPwd, exitLoop)
          IN  Step(r) /\ leading' = r.first /\ missing' = r.second
    /\ UNCHANGED <<expanded_target, default_uid, default_gid>>
    /\ UNCHANGED <<inputVars, runnerVars, raceVars, hostVars, lifeVars, histVars>>

MakeTargetDir ==
    /\ pc = "make_target_dir"
    /\ \E exit \in ExitCodes, made \in 0..MaxTargetLen :
          LET r == make_target_dir(leading, missing, exit, made)
          IN  /\ Step(r)
              /\ dirs' = dirs \cup r.new
              /\ owner' = [d \in dirs' |-> IF d \in dirs THEN owner[d] ELSE RootOwner]
    /\ UNCHANGED <<expanded_target, leading, missing, default_uid, default_gid>>
    /\ UNCHANGED <<inputVars, runnerVars, raceVars, lifeVars, histVars>>

SetOwnerFor ==
    /\ pc = "set_owner_for"
    /\ \E exitNu \in ExitCodes, exitNg \in ExitCodes, exitChown \in ExitCodes :
          LET r == set_owner_for(leading, missing, exitNu, exitNg, exitChown)
          IN  /\ Step(r)
              /\ owner' = [d \in dirs |-> IF d \in r.set THEN r.to ELSE owner[d]]
    /\ UNCHANGED <<dirs, expanded_target, leading, missing, default_uid, default_gid>>
    /\ UNCHANGED <<inputVars, runnerVars, raceVars, lifeVars, histVars>>

ResolveDefaultUid ==
    /\ pc = "id -u"
    /\ \E exit \in ExitCodes, out \in IdOutputs :
          LET r == resolve_id("id -u", exit, out)
          IN  Step(r) /\ default_uid' = r.id
    /\ UNCHANGED <<expanded_target, leading, missing, default_gid>>
    /\ UNCHANGED <<inputVars, runnerVars, raceVars, hostVars, lifeVars, histVars>>

ResolveDefaultGid ==
    /\ pc = "id -g"
    /\ \E exit \in ExitCodes, out \in IdOutputs :
          LET r == resolve_id("id -g", exit, out)
          IN  Step(r) /\ default_gid' = r.id
    /\ UNCHANGED <<expanded_target, leading, missing, default_uid>>
    /\ UNCHANGED <<inputVars, runnerVars, raceVars, hostVars, lifeVars, histVars>>

\* sftp_server{make_sftp_server(...)}: the last statement of make_sftp_server, the
\* session moves into the server.
ConstructServer ==
    /\ pc = "make_unique<SftpServer>"
    /\ sftp_server' = make_unique_SftpServer(source, target, expanded_target, gid_map, uid_map,
                                             default_uid, default_gid)
    /\ pc' = AfterConstruct(pc)
    /\ UNCHANGED <<cmdLog, error, expanded_target, leading, missing, default_uid, default_gid>>
    /\ UNCHANGED <<sftp_thread, workerPc, stopPc, stopCalls, inDtor, started>>
    /\ UNCHANGED <<inputVars, runnerVars, raceVars, hostVars, histVars>>

\* sftp_thread{[this] {...}}: the worker starts and the constructor returns.
StartThread ==
    /\ pc = "sftp_thread"
    /\ sftp_thread' = "running"
    /\ workerPc' = "Connected"
    /\ started' = started + 1
    /\ pc' = AfterConstruct(pc)
    /\ UNCHANGED <<cmdLog, error, expanded_target, leading, missing, default_uid, default_gid>>
    /\ UNCHANGED <<sftp_server, stopPc, stopCalls, inDtor>>
    /\ UNCHANGED <<inputVars, runnerVars, raceVars, hostVars, histVars>>

\* The worker: std::cout << "Connected"; and it enters sftp_server->run().
WorkerConnected ==
    /\ workerPc = "Connected"
    /\ workerPc' = "run"
    /\ UNCHANGED <<sftp_server, sftp_thread, stopPc, stopCalls, inDtor, started>>
    /\ UNCHANGED <<inputVars, runnerVars, raceVars, hostVars, prepVars, histVars>>

\* sftp_server->run() returns because stop was requested.
WorkerRunStopped ==
    /\ workerPc = "run"
    /\ SftpServer_run_stopped(sftp_server)
    /\ workerPc' = "Stopped"
    /\ UNCHANGED <<sftp_server, sftp_thread, stopPc, stopCalls, inDtor, started>>
    /\ UNCHANGED <<inputVars, runnerVars, raceVars, hostVars, prepVars, histVars>>

\* sftp_server->run() returns on its own (the client went away).
WorkerRunExits ==
    /\ workerPc = "run"
    /\ ~SftpServer_run_stopped(sftp_server)
    /\ workerPc' = "Stopped"
    /\ UNCHANGED <<sftp_server, sftp_thread, stopPc, stopCalls, inDtor, started>>
    /\ UNCHANGED <<inputVars, runnerVars, raceVars, hostVars, prepVars, histVars>>

\* std::cout << "Stopped"; and the lambda returns: the thread has finished (it stays
\* joinable until joined).
WorkerStopped ==
    /\ workerPc = "Stopped"
    /\ workerPc' = "done"
    /\ sftp_thread' = "finished"
    /\ UNCHANGED <<sftp_server, stopPc, stopCalls, inDtor, started>>
    /\ UNCHANGED <<inputVars, runnerVars, raceVars, hostVars, prepVars, histVars>>

\* Mutant: stop() joins without asking whether the thread is joinable.
ShouldJoin_Always(thread) == TRUE

\* Mutant: a thread that was ever started counts as joinable.
joinable_EverStarted(thread) == thread # "none"

\* std::thread::joinable()
joinable(thread) == thread \in {"running", "finished"}

\* stop(): if (sftp_thread.joinable())
ShouldJoin(thread) == joinable(thread)

\* Mutant: a stop() that has returned leaves the handle where its worker is started.
StopReturns_Restarts ==
    /\ stopPc' = "idle"
    /\ inDtor' = FALSE
    /\ pc' = IF inDtor THEN "destroyed" ELSE "sftp_thread"

\* stop() returns to its caller; the destructor's stop() ends the handle.
StopReturns ==
    /\ stopPc' = "idle"
    /\ inDtor' = FALSE
    /\ pc' = IF inDtor THEN "destroyed" ELSE pc

\* The caller calls stop() on the constructed handle: sftp_server->stop().
StopCall ==
    /\ pc = "constructed"
    /\ stopPc = "idle"
    /\ stopCalls < MaxStops
    /\ stopCalls' = stopCalls + 1
    /\ sftp_server' = SftpServer_stop(sftp_server)
    /\ stopPc' = "joinable"
    /\ UNCHANGED <<pc, cmdLog, error, expanded_target, leading, missing, default_uid, default_gid>>
    /\ UNCHANGED <<sftp_thread, workerPc, inDtor, started>>
    /\ UNCHANGED <<inputVars, runnerVars, raceVars, hostVars, histVars>>

\* ~SshfsMount(): stop(); sftp_server->stop().
Destroy ==
    /\ pc = "constructed"
    /\ stopPc = "idle"
    /\ inDtor' = TRUE
    /\ sftp_server' = SftpServer_stop(sftp_server)
    /\ stopPc' = "joinable"
    /\ UNCHANGED <<pc, cmdLog, error, expanded_target, leading, missing, default_uid, default_gid>>
    /\ UNCHANGED <<sftp_thread, workerPc, stopCalls, started>>
    /\ UNCHANGED <<inputVars, runnerVars, raceVars, hostVars, histVars>>

\* stop(): if (sftp_thread.joinable()) ... with the thread not to be joined.
StopSkipJoin ==
    /\ stopPc = "joinable"
    /\ ~ShouldJoin(sftp_thread)
    /\ StopReturns
    /\ UNCHANGED <<cmdLog, error, expanded_target, leading, missing, default_uid, default_gid>>
    /\ UNCHANGED <<sftp_server, sftp_thread, workerPc, stopCalls, started>>
    /\ UNCHANGED <<inputVars, runnerVars, raceVars, hostVars, histVars>>

\* stop(): if (sftp_thread.joinable()) ... with the thread to be joined.
StopEnterJoin ==
    /\ stopPc = "joinable"
    /\ ShouldJoin(sftp_thread)
    /\ stopPc' = "join"
    /\ UNCHANGED <<sftp_server, sftp_thread, workerPc, stopCalls, inDtor, started>>
    /\ UNCHANGED <<inputVars, runnerVars, raceVars, hostVars, prepVars, histVars>>

\* sftp_thread.join(): blocks until the worker has finished; std::system_error when
\* the thread is not joinable.
StopJoin ==
    /\ stopPc = "join"
    /\ \/ /\ sftp_thread = "finished"
          /\ sftp_thread' = "joined"
          /\ error' = error
       \/ /\ ~joinable(sftp_thread)
          /\ sftp_thread' = sftp_thread
          /\ error' = SystemError
    /\ StopReturns
    /\ UNCHANGED <<cmdLog, expanded_target, leading, missing, default_uid, default_gid>>
    /\ UNCHANGED <<sftp_server, workerPc, stopCalls, started>>
    /\ UNCHANGED <<inputVars, runnerVars, raceVars, hostVars, histVars>>

\* The caller mounts the same target again (a new handle) after the attempt failed or
\* its handle was destroyed.
Retry ==
    /\ pc \in {"failed", "destroyed"}
    /\ attempt < MaxAttempts
    /\ attempt' = attempt + 1
    /\ provisioned' = (provisioned \/ pc = "destroyed")
    /\ preDirs' = dirs
    /\ preOwner' = owner
    /\ pc' = "check_sshfs_exists"
    /\ cmdLog' = <<>>
    /\ error' = NoError
    /\ expanded_target' = <<>>
    /\ leading' = <<>>
    /\ missing' = <<>>
    /\ default_uid' = Invalid
    /\ default_gid' = Invalid
    /\ sftp_server' = NoServer
    /\ sftp_thread' = "none"
    /\ workerPc' = "none"
    /\ stopPc' = "idle"
    /\ stopCalls' = 0
    /\ inDtor' = FALSE
    /\ started' = 0
    /\ UNCHANGED <<inputVars, runnerVars, raceVars, hostVars>>

Next ==
    \/ CheckSshfsExists
    \/ ExpandHomeDirectory
    \/ GetPathSplit
    \/ MakeTargetDir
    \/ SetOwnerFor
    \/ ResolveDefaultUid
    \/ ResolveDefaultGid
    \/ ConstructServer
    \/ StartThread
    \/ WorkerConnected
    \/ WorkerRunStopped
    \/ WorkerRunExits
    \/ WorkerStopped
    \/ StopCall
    \/ Destroy
    \/ StopSkipJoin
    \/ StopEnterJoin
    \/ StopJoin
    \/ Retry

Spec == Init /\ [][Next]_vars

\* The scheduler runs the worker thread and lets a caller inside stop() go on; run()
\* returns once stop has been requested.  Whether the caller calls stop() at all, and
\* whether run() returns on its own, is left open.
Fairness ==
    /\ WF_vars(WorkerConnected)
    /\ WF_vars(WorkerRunStopped)
    /\ WF_vars(WorkerStopped)
    /\ WF_vars(StopSkipJoin)
    /\ WF_vars(StopEnterJoin)
    /\ WF_vars(StopJoin)

FairSpec == Init /\ [][Next]_vars /\ Fairness

(***************************************************************************)
(* The same program, entered with any of the sources and identity mappings *)
(* and with a target of each kind: the shorthand alone, with a remainder,  *)
(* with a user, an absolute path, a relative path.                         *)
(***************************************************************************)
HandoffTargets ==
    {<<"~">>, <<"~", "/", "a">>, <<"~", "a", "/", "a">>, <<"/", "a", "/", "a">>, <<"a">>}

HandoffInit == MountInit(Sources, HandoffTargets, IdMaps) /\ OthersIdle

HandoffSpec == HandoffInit /\ [][Next]_vars

(***************************************************************************)
(* The same program with a second thread that holds the handle and calls   *)
(* stop() on it once, at any time after the constructor has returned.      *)
(* stop() takes no lock.  The handle is not destroyed while the threads    *)
(* use it.                                                                 *)
(***************************************************************************)
RaceTargets == {<<"/", "a">>, <<"~", "/", "a">>}

RaceInit ==
    /\ MountInit({<<"s">>}, RaceTargets, {{}})
    /\ runCapture = <<>>
    /\ runRet = [at |-> "none", value |-> <<>>]
    /\ otherPc = "idle"

\* The second thread calls stop(): sftp_server->stop().
OtherStopCall ==
    /\ pc = "constructed"
    /\ otherPc = "idle"
    /\ sftp_server' = SftpServer_stop(sftp_server)
    /\ otherPc' = "joinable"
    /\ UNCHANGED <<sftp_thread, workerPc, stopPc, stopCalls, inDtor, started>>
    /\ UNCHANGED <<inputVars, hostVars, prepVars, histVars, runnerVars>>

\* if (sftp_thread.joinable()) ... with the thread not to be joined: stop() returns.
OtherSkipJoin ==
    /\ otherPc = "joinable"
    /\ ~ShouldJoin(sftp_thread)
    /\ otherPc' = "returned"
    /\ UNCHANGED <<inputVars, hostVars, prepVars, lifeVars, histVars, runnerVars>>

\* if (sftp_thread.joinable()) ... with the thread to be joined.
OtherEnterJoin ==
    /\ otherPc = "joinable"
    /\ ShouldJoin(sftp_thread)
    /\ otherPc' = "join"
    /\ UNCHANGED <<inputVars, hostVars, prepVars, lifeVars, histVars, runnerVars>>

\* sftp_thread.join(): returns when the worker has finished.  On a thread the other
\* caller has joined meanwhile the behaviour is undefined (two unsynchronised
\* accesses to one std::thread): join() throws std::system_error, or returns, or
\* does not return.
OtherJoin ==
    /\ otherPc = "join"
    /\ \/ /\ sftp_thread = "finished"
          /\ sftp_thread' = "joined"
          /\ otherPc' = "returned"
       \/ /\ ~joinable(sftp_thread)
          /\ sftp_thread' = sftp_thread
          /\ otherPc' \in {"threw", "returned", "blocked"}
    /\ UNCHANGED <<sftp_server, workerPc, stopPc, stopCalls, inDtor, started>>
    /\ UNCHANGED <<inputVars, hostVars, prepVars, histVars, runnerVars>>

RaceNext ==
    \/ CheckSshfsExists
    \/ ExpandHomeDirectory
    \/ GetPathSplit
    \/ MakeTargetDir
    \/ SetOwnerFor
    \/ ResolveDefaultUid
    \/ ResolveDefaultGid
    \/ ConstructServer
    \/ StartThread
    \/ WorkerConnected
    \/ WorkerRunStopped
    \/ WorkerRunExits
    \/ WorkerStopped
    \/ StopCall
    \/ StopSkipJoin
    \/ StopEnterJoin
    \/ StopJoin
    \/ OtherStopCall
    \/ OtherSkipJoin
    \/ OtherEnterJoin
    \/ OtherJoin

RaceSpec == RaceInit /\ [][RaceNext]_vars

(***************************************************************************)
(* run_string_cmd on its own: the session answers the wrapped command with *)
(* an exit code and a capture of its choice.                               *)
(***************************************************************************)
CaptureChars == {"v", " ", "-", "\n"}

\* "value", two spaces and the sentinel.
ValueCapture == <<"v", "a", "l", "u", "e", " ", " ", "-">>

RawCaptures ==
    UNION {[1..k -> CaptureChars] : k \in 0..MaxCaptureLen} \cup {ValueCapture}

RunnerInit ==
    /\ MountInit({<<"s">>}, {<<>>}, {{}})
    /\ runCapture \in RawCaptures
    /\ runRet = [at |-> "run_cmd", value |-> <<>>]
    /\ otherPc = "none"

\* ret = run_cmd(session, "echo `" + cmd + "`-"); trim_end(ret); pop_back; return ret;
\* or the exception of run_cmd goes on to the caller.
RunStringCmd ==
    /\ runRet.at = "run_cmd"
    /\ \E exit \in ExitCodes :
          LET r == run_cmd(exit, runCapture)
          IN  runRet' = IF r.err # NoError THEN [at |-> "threw", value |-> <<>>]
                        ELSE [at |-> "returned", value |-> run_string_cmd(r.out)]
    /\ UNCHANGED <<inputVars, hostVars, prepVars, lifeVars, histVars, runCapture, raceVars>>

RunnerNext == RunStringCmd

RunnerSpec == RunnerInit /\ [][RunnerNext]_vars

(***************************************************************************)
(* Properties.                                                             *)
(***************************************************************************)
PrepSteps == <<"check_sshfs_exists", "expand_home_directory", "get_path_split",
               "make_target_dir", "set_owner_for", "id -u", "id -g">>

IsPrepStep(p) == \E k \in 1..Len(PrepSteps) : PrepSteps[k] = p

\* The place of a preparation step in the order of section 4.5; the server's
\* construction and all that follows come after the last.
StepIndex(p) ==
    IF IsPrepStep(p) THEN CHOOSE k \in 1..Len(PrepSteps) : PrepSteps[k] = p
    ELSE Len(PrepSteps) + 1

\* The commands each preparation step may issue, and the one that ends it when the
\* step cannot return without a command.
CommandsOf(k) ==
    CASE k = 1 -> {"which sshfs"}
      [] k = 2 -> {"pwd", "getent passwd"}
      [] k = 3 -> {"pwd", "find existing"}
      [] k = 4 -> {"mkdir -p"}
      [] k = 5 -> {"id -nu", "id -ng", "chown -R"}
      [] k = 6 -> {"id -u"}
      [] OTHER -> {"id -g"}

LastCommandOf(k) ==
    CASE k = 1 -> {"which sshfs"}
      [] k = 3 -> {"find existing"}
      [] k = 5 -> {"chown -R"}
      [] k = 6 -> {"id -u"}
      [] k = 7 -> {"id -g"}
      [] OTHER -> {}

Issued(c) == \E i \in 1..Len(cmdLog) : cmdLog[i].cmd = c

\* The caller is somewhere in or after make_sftp_server, on its normal path.
OnNormalPath == pc \notin {"failed", "blocked"}

\* C1: the preparation commands are issued in the order probe, expand home, split,
\* create directories, set ownership, id -u, id -g: every command in the log belongs
\* to the step that issued it, the steps of the log never go back, a step is only
\* reached with every earlier step completed, and the server exists only after all
\* seven.
C1_PreparationOrder ==
    /\ \A i \in 1..Len(cmdLog) :
          /\ IsPrepStep(cmdLog[i].by)
          /\ cmdLog[i].cmd \in CommandsOf(StepIndex(cmdLog[i].by))
    /\ \A i \in 1..Len(cmdLog), j \in 1..Len(cmdLog) :
          i < j => StepIndex(cmdLog[i].by) <= StepIndex(cmdLog[j].by)
    /\ OnNormalPath =>
          /\ \A i \in 1..Len(cmdLog) :
                StepIndex(cmdLog[i].by) < StepIndex(pc) /\ cmdLog[i].exit = 0
          /\ \A k \in 1..Len(PrepSteps) :
                k < StepIndex(pc) => \A c \in LastCommandOf(k) : Issued(c)
    /\ sftp_server.constructed =>
          /\ StepIndex(pc) = Len(PrepSteps) + 1
          /\ cmdLog # <<>> /\ cmdLog[Len(cmdLog)].cmd = "id -g"

\* C1 witness: a server constructed after a preparation that issued a command in each
\* of the seven steps.
C1_Witness ==
    /\ sftp_server.constructed
    /\ \A k \in 1..Len(PrepSteps) : \E i \in 1..Len(cmdLog) : StepIndex(cmdLog[i].by) = k

\* The life of the handle (section 4.5); Aborted is a mount attempt that failed while
\* Preparing.
Lifecycle ==
    IF sftp_thread \in {"running", "finished"} THEN "Running"
    ELSE IF sftp_thread = "joined" THEN "Stopped"
    ELSE IF pc = "failed" THEN "Aborted"
    ELSE "Preparing"

\* A command of the log that makes its step fail: it exited non-zero, it is the user
\* lookup and came back empty, or it is id -u / id -g and its output is no number.
FailingEntry(e) ==
    \/ e.exit # 0
    \/ e.cmd = "getent passwd" /\ run_string_cmd(e.out) = <<>>
    \/ e.cmd \in {"id -u", "id -g"} /\ stoi(e.out) = Invalid

NothingStarted ==
    /\ sftp_server = NoServer
    /\ sftp_thread = "none"
    /\ workerPc = "none"
    /\ started = 0
    /\ Lifecycle = "Aborted"

\* C2: a failing preparation command is the last command of its attempt; the attempt
\* is aborted with an error, no server is constructed, no worker is started and the
\* lifecycle is never Running.
C2_FailureAborts ==
    /\ \A i \in 1..Len(cmdLog) :
          FailingEntry(cmdLog[i]) =>
              /\ i = Len(cmdLog)
              /\ pc = "failed"
              /\ error # NoError
              /\ NothingStarted
    /\ pc = "failed" => NothingStarted

\* C2 witness: the attempt failed at the ownership change, after the directories had
\* been made.
C2_Witness ==
    /\ pc = "failed"
    /\ Issued("mkdir -p")
    /\ cmdLog[Len(cmdLog)].cmd = "chown -R"
    /\ cmdLog[Len(cmdLog)].exit # 0

\* C3: a failing probe for the tool ends the attempt with the tool-missing error, not
\* the generic command error, and the probe is the only command of the attempt.
C3_ToolMissing ==
    (cmdLog # <<>> /\ cmdLog[1].cmd = "which sshfs" /\ cmdLog[1].exit # 0) =>
        /\ error = SSHFSMissingError
        /\ error # RuntimeError
        /\ Len(cmdLog) = 1
        /\ pc = "failed"

\* C3 witness: the probe has failed.
C3_Witness ==
    /\ cmdLog # <<>>
    /\ cmdLog[1].cmd = "which sshfs"
    /\ cmdLog[1].exit # 0
    /\ pc = "failed"

\* A stop() of this handle has returned.
StopHasReturned == stopPc = "idle" /\ (stopCalls > 0 \/ pc = "destroyed")

\* C4: every stop() on a constructed handle returns, whatever the worker is doing
\* when it is called (not yet in run(), in run(), leaving run() on its own, finished,
\* already joined by an earlier stop()); it raises no error, and once a stop() has
\* returned the worker has finished and is joined.
C4_StopReturns ==
    /\ [](StopHasReturned =>
             /\ sftp_thread = "joined"
             /\ workerPc = "done"
             /\ error = NoError)
    /\ [](stopPc = "join" => joinable(sftp_thread))
    /\ (stopPc # "idle") ~> (stopPc = "idle")

\* C4 witness: the second stop() in a row has returned on a handle whose first stop()
\* joined the worker.
C4_Witness ==
    /\ pc = "constructed"
    /\ stopCalls = 2
    /\ stopPc = "idle"
    /\ sftp_thread = "joined"

\* The moves of the lifecycle that go forward (or stay).
LifecycleForward(from, to) ==
    \/ from = to
    \/ from = "Preparing" /\ to \in {"Running", "Aborted"}
    \/ from = "Running" /\ to = "Stopped"

\* C5: a handle never has more than one worker, and as long as the handle is the same
\* its lifecycle only moves forward Preparing -> Running -> Stopped: once the worker
\* is joined it stays joined and no worker is started, whatever stop() calls and
\* destruction follow.
C5_OneWorkerForward ==
    /\ [](started <= 1 /\ (sftp_thread # "none" <=> started = 1))
    /\ [][attempt' = attempt =>
             /\ LifecycleForward(Lifecycle, Lifecycle')
             /\ started' >= started
             /\ sftp_thread = "joined" => (sftp_thread' = "joined" /\ started' = started)]_vars

\* C5 witness: a handle destroyed after two stop() calls, its one worker joined.
C5_Witness ==
    /\ pc = "destroyed"
    /\ stopCalls = 2
    /\ started = 1
    /\ sftp_thread = "joined"

\* The k-th command of the log named c, and whether one such returned with exit 0.
Entries(c) == {i \in 1..Len(cmdLog) : cmdLog[i].cmd = c}
Succeeded(c) == \E i \in Entries(c) : cmdLog[i].exit = 0

\* The host has answered every command of this attempt as a sound host does: it failed
\* none for reasons of its own, and id -u / id -g printed a number.
HostSound ==
    \A i \in 1..Len(cmdLog) :
        /\ ~cmdLog[i].injected
        /\ cmdLog[i].cmd \in {"id -u", "id -g"} => stoi(cmdLog[i].out) # Invalid

\* C6 (as claimed): a prepare sequence run against a target that an earlier run has
\* fully provisioned issues no directory-creation command and does not fail.
C6_SecondRunIdempotent ==
    (provisioned /\ HostSound) => (~Issued("mkdir -p") /\ pc # "failed")

\* get_path_split has returned in this attempt.  Until make_target_dir runs, the
\* remote directories are those the attempt began with (preDirs).
SplitReturned == Succeeded("find existing")

\* The absolute target: the expanded target itself when absolute, the remote working
\* directory joined with it when relative.
IsAbsolute(path) == path # <<>> /\ path[1] = "/"
AbsoluteTarget ==
    IF IsAbsolute(expanded_target) THEN expanded_target
    ELSE Home \o <<"/">> \o expanded_target

\* The longest ancestor of the path q (itself included) that is a directory of D.
LongestExisting(q, D) ==
    CHOOSE d \in D : /\ IsPrefix(d, q)
                     /\ \A e \in D : IsPrefix(e, q) => Len(e) <= Len(d)

\* C7: get_path_split returns an existing part that is non-empty, ends in '/', names
\* a directory of the remote host, the longest existing ancestor of the absolute
\* target, and that joined with the missing part names the absolute target; the
\* target /a/a/a with only /a existing gives "/a/" and "a/a".
C7_SplitCorrect ==
    SplitReturned =>
        /\ leading # <<>>
        /\ leading[Len(leading)] = "/"
        /\ IsAbsolute(leading)
        /\ Segs(leading) \in preDirs
        /\ Segs(leading) = LongestExisting(Segs(AbsoluteTarget), preDirs)
        /\ Segs(leading \o missing) = Segs(AbsoluteTarget)
        /\ (AbsoluteTarget = <<"/", "a", "/", "a", "/", "a">> /\ preDirs = {Root, <<<<"a">>>>}) =>
              (leading = <<"/", "a", "/">> /\ missing = <<"a", "/", "a">>)

\* C7 witness: the split of /a/a/a with only /a existing has returned.
C7_Witness ==
    /\ SplitReturned
    /\ AbsoluteTarget = <<"/", "a", "/", "a", "/", "a">>
    /\ preDirs = {Root, <<<<"a">>>>}
    /\ missing = <<"a", "/", "a">>

\* C8 (as claimed): for an absolute target that exists as a directory, get_path_split
\* returns the empty missing part and the target with a trailing slash.
C8_ExistingTargetSplit ==
    (SplitReturned /\ IsAbsolute(expanded_target) /\ Segs(expanded_target) \in preDirs) =>
        /\ missing = <<>>
        /\ leading = QDirPath(expanded_target) \o <<"/">>

\* set_owner_for has returned in this attempt: provisioning succeeded.
Provisioned == Succeeded("chown -R")

MissingSegs == Segs(missing)

\* C9: after a successful provisioning with the missing part s1/.../sn (n >= 1), the
\* directories root/s1, ..., root/s1/.../sn exist, root/s1 and all below it belong
\* to the connecting user and group, and the one ownership change of the attempt
\* names exactly s1, under root.
C9_ProvisionedOwned ==
    (Provisioned /\ Len(MissingSegs) >= 1) =>
        /\ \A k \in 1..Len(MissingSegs) :
              Segs(leading) \o Slice(MissingSegs, 1, k) \in dirs
        /\ \A d \in dirs :
              IsPrefix(Segs(leading) \o <<MissingSegs[1]>>, d) => owner[d] = HomeOwner
        /\ Cardinality(Entries("chown -R")) = 1
        /\ \A i \in Entries("chown -R") :
              cmdLog[i].arg = MissingSegs[1] /\ cmdLog[i].root = leading

\* C9 witness: a provisioning with a missing part of two segments has succeeded.
C9_Witness ==
    /\ Provisioned
    /\ Len(MissingSegs) = 2
    /\ Segs(leading) \o MissingSegs \in dirs \ preDirs

\* C10 (as claimed): the directories that existed when the attempt began have the
\* owner they had then.
C10_ExistingOwnersKept ==
    \A d \in preDirs : d \in dirs /\ owner[d] = preOwner[d]

\* The target starts with the home shorthand.
Shorthand(t) == t # <<>> /\ t[1] = "~"

\* C11: for a target that does not start with '~' (the empty target included),
\* expand_home_directory returns the target as it is and executes no command: the
\* step leaves the log alone, cannot fail, and no command of the log is ever its.
C11_NoShorthandUnchanged ==
    /\ [][(pc = "expand_home_directory" /\ ~Shorthand(target)) =>
             /\ expanded_target' = target
             /\ cmdLog' = cmdLog
             /\ error' = NoError
             /\ pc' = "get_path_split"]_vars
    /\ [](~Shorthand(target) =>
             \A i \in 1..Len(cmdLog) : cmdLog[i].by # "expand_home_directory")

\* C11 witness: the empty target has gone through expand_home_directory, and the
\* next step has run its commands.
C11_Witness ==
    /\ target = <<>>
    /\ expanded_target = target
    /\ pc = "make_target_dir"
    /\ cmdLog # <<>>

\* What a shorthand target names: the user (between '~' and the first '/') and the
\* remainder (from the first '/' on).
HasSlash(t) == Positions(t, "/") # {}
UserOf(t) == IF HasSlash(t) THEN Slice(t, 2, Min(Positions(t, "/")) - 1) ELSE Slice(t, 2, Len(t))
RestOf(t) == IF HasSlash(t) THEN Slice(t, Min(Positions(t, "/")), Len(t)) ELSE <<>>

\* The step of expand_home_directory on a shorthand target whose command the session
\* did not fail.
ExpandsShorthand ==
    /\ pc = "expand_home_directory"
    /\ Shorthand(target)
    /\ Len(cmdLog') = Len(cmdLog) + 1
    /\ cmdLog'[Len(cmdLog')].exit = 0

\* C12: "~" gives the home directory pwd reports; "~/rest" gives that home followed
\* by "/rest"; "~user/rest" gives the home the password database has for user,
\* followed by "/rest"; and a user whose lookup prints nothing ends the step with the
\* unknown-user error and no path.
C12_ShorthandExpansion ==
    [][ExpandsShorthand =>
          /\ target = <<"~">> =>
                /\ expanded_target' = Home
                /\ cmdLog'[Len(cmdLog')].cmd = "pwd"
                /\ error' = NoError
          /\ (UserOf(target) = <<>> /\ HasSlash(target)) =>
                /\ expanded_target' = Home \o RestOf(target)
                /\ cmdLog'[Len(cmdLog')].cmd = "pwd"
                /\ error' = NoError
          /\ (UserOf(target) # <<>> /\ HasSlash(target) /\ PasswdHome(UserOf(target)) # <<>>) =>
                /\ expanded_target' = PasswdHome(UserOf(target)) \o RestOf(target)
                /\ cmdLog'[Len(cmdLog')].cmd = "getent passwd"
                /\ cmdLog'[Len(cmdLog')].arg = UserOf(target)
                /\ error' = NoError
          /\ (UserOf(target) # <<>> /\ PasswdHome(UserOf(target)) = <<>>) =>
                /\ error' = UnknownUser
                /\ expanded_target' = <<>>
                /\ pc' = "failed"]_vars

\* C12 witness: "~a/a" has been expanded to the home of user a followed by "/a".
C12_Witness ==
    /\ target = <<"~", "a", "/", "a">>
    /\ expanded_target = <<"/", "a", "/", "a", "/", "a">>
    /\ pc = "get_path_split"

\* C13 (as claimed): for the capture "value", two spaces, sentinel, run_string_cmd
\* returns "value": the sentinel and the spaces before it are both gone.
C13_ValueOnly ==
    (runRet.at = "returned" /\ runCapture = ValueCapture) =>
        runRet.value = <<"v", "a", "l", "u", "e">>

\* C13 (amended): for the capture "value", two spaces, sentinel, run_string_cmd
\* returns "value" followed by the two spaces: the sentinel is removed, the spaces
\* that came before it are kept.
C13_ValueAndSpaces ==
    (runRet.at = "returned" /\ runCapture = ValueCapture) =>
        runRet.value = <<"v", "a", "l", "u", "e", " ", " ">>

\* C13 witness: run_string_cmd has returned for that capture.
C13_Witness ==
    /\ runRet.at = "returned"
    /\ runCapture = ValueCapture

\* C16 (as claimed): run_string_cmd strips the trailing whitespace and then removes
\* the last character only if it is the sentinel: a capture ending in the sentinel
\* loses that one sentinel and keeps the spaces before it, a capture whose last
\* non-whitespace character is not the sentinel keeps all of them, and a capture of
\* whitespace only is returned empty.
C16_SentinelOnlyIfPresent ==
    runRet.at = "returned" =>
        LET s == trim_end(runCapture)
        IN  /\ (s # <<>> /\ s[Len(s)] = "-") => runRet.value = Slice(s, 1, Len(s) - 1)
            /\ (s # <<>> /\ s[Len(s)] # "-") => runRet.value = s
            /\ s = <<>> => runRet.value = <<>>

\* The session has been moved into the server.
HandedOff == sftp_server.constructed

\* C14: once the session is handed to the server, the manager executes no command
\* on it: no step that ends with the server constructed (the handoff itself, the
\* start of the worker, the worker's steps, stop(), the destructor) adds to the log
\* of the attempt, and a handle whose server exists is past every preparation step.
C14_NoCommandAfterHandoff ==
    /\ [][HandedOff' => cmdLog' = cmdLog]_vars
    /\ [][(stopPc # "idle" \/ stopPc' # "idle") => cmdLog' = cmdLog]_vars
    /\ [](HandedOff => pc \in {"sftp_thread", "constructed", "destroyed"})

\* C14 witness: a handle made by a preparation of at least seven commands has been
\* stopped and then destroyed.
C14_Witness ==
    /\ HandedOff
    /\ pc = "destroyed"
    /\ stopCalls = 1
    /\ Len(cmdLog) >= Len(PrepSteps)

\* C15: a stop request (stop() or the destructor) signals the server in its first
\* step, before it looks at the worker; the worker is joined only by a caller inside
\* stop(), after the signal; and a stop request made when the worker is already
\* joined never reaches join(), raises no error and returns.
C15_SignalThenJoin ==
    /\ [][(stopPc = "idle" /\ stopPc' # "idle") =>
             /\ sftp_server'.stop_invoked
             /\ stopPc' = "joinable"
             /\ sftp_thread' = sftp_thread]_vars
    /\ [](stopPc \in {"joinable", "join"} => sftp_server.stop_invoked)
    /\ [][(sftp_thread # "joined" /\ sftp_thread' = "joined") =>
             /\ stopPc = "join"
             /\ sftp_server.stop_invoked]_vars
    /\ [](sftp_thread = "joined" => (stopPc # "join" /\ error = NoError))
    /\ (stopPc # "idle" /\ sftp_thread = "joined") ~> (stopPc = "idle")

\* C15 witness: the destructor's stop(), after an earlier stop() has joined the
\* worker, has signalled the server and is about to look at the worker.
C15_Witness ==
    /\ inDtor
    /\ stopCalls >= 1
    /\ stopPc = "joinable"
    /\ sftp_thread = "joined"
    /\ sftp_server.stop_invoked

\* What the target stands for: itself, or the home directory it names followed by its
\* remainder.
ExpectedExpansion ==
    IF ~Shorthand(target) THEN target
    ELSE IF UserOf(target) = <<>> THEN Home \o RestOf(target)
    ELSE PasswdHome(UserOf(target)) \o RestOf(target)

\* The number the one command named c of this attempt printed.
NumberReported(c) ==
    LET out == cmdLog[CHOOSE i \in Entries(c) : TRUE].out
    IN  CASE out = <<"7", "\n">> -> 7
          [] out = <<"0", "\n">> -> 0
          [] OTHER -> Invalid

\* C17: the server is constructed with the source, with the expanded target (for a
\* shorthand target not the target as written), with the caller's gid and uid
\* mappings as they were handed over, and with the numbers the one id -u and the one
\* id -g of this attempt printed; and the constructor returns in the step that
\* starts the worker, before run() has been entered.
C17_ServerArguments ==
    /\ [](HandedOff =>
             /\ sftp_server.source = source
             /\ sftp_server.target = ExpectedExpansion
             /\ Shorthand(target) => sftp_server.target # target
             /\ sftp_server.gid_map = gid_map
             /\ sftp_server.uid_map = uid_map
             /\ Cardinality(Entries("id -u")) = 1
             /\ Cardinality(Entries("id -g")) = 1
             /\ sftp_server.default_uid = NumberReported("id -u")
             /\ sftp_server.default_gid = NumberReported("id -g")
             /\ sftp_server.default_uid # Invalid
             /\ sftp_server.default_gid # Invalid)
    /\ [][pc = "sftp_thread" =>
             /\ pc' = "constructed"
             /\ sftp_thread' = "running"
             /\ workerPc' = "Connected"]_vars

\* C17 witness: the constructor has returned for the target "~a/a" with different
\* mappings and different ids, and the worker is inside run().
C17_Witness ==
    /\ pc = "constructed"
    /\ workerPc = "run"
    /\ stopCalls = 0
    /\ target = <<"~", "a", "/", "a">>
    /\ sftp_server.target = <<"/", "a", "/", "a", "/", "a">>
    /\ gid_map # uid_map
    /\ sftp_server.gid_map = gid_map
    /\ sftp_server.default_uid = 7
    /\ sftp_server.default_gid = 0

\* C18 (as claimed): for a target that starts with '~', expand_home_directory either
\* returns the home directory followed by the remainder of the target from its first
\* slash (no remainder when there is no slash, as in "~user"), or fails with the
\* unknown-user error or with the error of a failed command.
C18_ShorthandReturnsOrFails ==
    [][(pc = "expand_home_directory" /\ Shorthand(target)) =>
          \/ error' = NoError /\ expanded_target' = ExpectedExpansion
          \/ error' \in {UnknownUser, RuntimeError}]_vars

\* C19 (as claimed): with stop() called by two threads on the same running handle,
\* the two callers are never both at join(), each having found the worker joinable.
C19_JoinedAtMostOnce ==
    ~(stopPc = "join" /\ otherPc = "join")

\* C20: the search for the existing ancestor ends for every absolute path and every
\* remote tree.  The caller is never left waiting for it; the path it starts from is
\* absolute; stripping any non-empty prefix of an absolute path removes exactly its
\* last '/' and the component behind it, so the path gets shorter each time; the
\* root is always a directory; and what the search prints is an existing directory
\* on the way to the path.
C20_SearchTerminates ==
    /\ pc # "blocked"
    /\ error # NeverReturns
    /\ Root \in dirs
    /\ \A i \in Entries("find existing") :
          LET p     == cmdLog[i].arg
              found == run_string_cmd(cmdLog[i].out)
          IN  /\ IsAbsolute(p)
              /\ cmdLog[i].out # EchoWrap(Hang)
              /\ Segs(found) \in preDirs
              /\ IsPrefix(Segs(found), Segs(p))
              /\ \A n \in 1..Len(p) :
                    LET q == Slice(p, 1, n)
                        s == StripLastComponent(q)
                    IN  /\ Len(s) < Len(q)
                        /\ IsPrefix(s, q)
                        /\ q[Len(s) + 1] = "/"
                        /\ Positions(Slice(q, Len(s) + 2, Len(q)), "/") = {}

\* C20 witness: a search that started at a path missing right below the root was
\* reduced to the root and returned.
C20_Witness ==
    /\ Succeeded("find existing")
    /\ leading = <<"/">>
    /\ Segs(AbsoluteTarget) = <<<<"a", "a">>>>
    /\ Segs(AbsoluteTarget) \notin preDirs
    /\ pc = "make_target_dir"

====
